---------------------------- MODULE Spec2Model ----------------------------
(***************************************************************************)
(* Model of log_tools/src/main.rs (Android log / memory analyzer over adb). *)
(*                                                                         *)
(* Text is modelled as a sequence of tokens.  A token is a maximal piece   *)
(* of a line that the program's regular expressions and string tests never *)
(* split: a label word ("Native Heap"), a colon, one whitespace character, *)
(* one decimal digit, a library name, or BigDigits, which stands for a run *)
(* of twenty digits (a number no u64 holds).  A report is the sequence of  *)
(* its lines as str::lines() yields them.                                  *)
(***************************************************************************)
EXTENDS Integers, Sequences, FiniteSets, TLC

VARIABLES
    \* parse_memory_value / the MemorySample literal (lines 132-142, 358-370)
    report,          \* the report text handed to parse_memory_value
    parsed,          \* the results of the parse_memory_value calls made, in order
    sample_res,      \* the MemorySample built, or the Err that `?` returned
    parse_pc,
    \* monitor_memory (lines 124-182)
    mon_pc, elapsed, duration, sample_interval, buffer, samples, outputs, mon_result,
    \* analyze_so_memory (lines 278-334)
    so_pc, so_lines, so_i, in_so_section, so_libs, so_result,
    \* start_logcat (lines 88-122)
    lc_pc, child, output_file, stream, file_state, lc_result,
    \* main (lines 372-446)
    main_pc, args, executed, ran, main_result

parseVars == << report, parsed, sample_res, parse_pc >>
monVars == << mon_pc, elapsed, duration, sample_interval, buffer, samples, outputs, mon_result >>
soVars == << so_pc, so_lines, so_i, in_so_section, so_libs, so_result >>
lcVars == << lc_pc, child, output_file, stream, file_state, lc_result >>
mainVars == << main_pc, args, executed, ran, main_result >>
vars == << parseVars, monVars, soVars, lcVars, mainVars >>

\* ------------------------------------------------------------------ bounds
MaxLines == 2          \* lines of a report given to parse_memory_value
NumReportLabels == 2   \* how many of the tracked labels occur in reports
MaxDuration == 5       \* monitor_memory: largest duration (seconds)
MaxInterval == 3       \* monitor_memory: largest sample_interval (seconds)
MaxSoLines == 4        \* analyze_so_memory: lines of a short report
MaxStream == 3         \* start_logcat: lines the child writes before it exits

\* --------------------------------------------------------------- tokens
BigDigits == "99999999999999999999"

IsWs(t) == t = " "

DigitTokens == << "0", "1", "2", "3", "4", "5", "6", "7", "8", "9" >>

IsDigit(t) == t = BigDigits \/ \E k \in 1..10 : DigitTokens[k] = t

DigitVal(t) == (CHOOSE k \in 1..10 : DigitTokens[k] = t) - 1

SetMin(S) == CHOOSE x \in S : \A y \in S : x <= y

SetMax(S) == CHOOSE x \in S : \A y \in S : y <= x

\* str::trim: the text without its leading and trailing whitespace
Trim(s) ==
    LET idx == {i \in 1..Len(s) : ~IsWs(s[i])}
    IN  IF idx = {} THEN <<>> ELSE SubSeq(s, SetMin(idx), SetMax(idx))

\* the end of the maximal run of digits that starts at position d (greedy \d+)
RunEnd(line, d) ==
    SetMax({e \in d..Len(line) : \A j \in d..e : IsDigit(line[j])})

RECURSIVE DecValue(_)
DecValue(run) ==
    IF run = <<>> THEN 0
    ELSE 10 * DecValue(SubSeq(run, 1, Len(run) - 1)) + DigitVal(run[Len(run)])

\* str::parse::<u64>() of a run of digits: None when the number overflows u64
ParseU64(run) ==
    IF \E i \in 1..Len(run) : run[i] = BigDigits
    THEN [some |-> FALSE, val |-> 0]
    ELSE [some |-> TRUE, val |-> DecValue(run)]

\* -------------------------------------------------------- tracked fields
Fields == << "total_pss", "native_heap", "dalvik_heap", "code", "stack",
             "graphics", "private_dirty", "shared_dirty" >>

Label(f) ==
    CASE f = "total_pss" -> "TOTAL PSS"
      [] f = "native_heap" -> "Native Heap"
      [] f = "dalvik_heap" -> "Dalvik Heap"
      [] f = "code" -> "Code"
      [] f = "stack" -> "Stack"
      [] f = "graphics" -> "Graphics"
      [] f = "private_dirty" -> "Private Dirty"
      [] f = "shared_dirty" -> "Shared Dirty"

\* the key string monitor_memory passes to parse_memory_value for field f
KeyArg(f) == << Label(f), ":" >>

\* ------------------------------------------------------------ MEM_REGEX
\* MEM_REGEX.captures(line) for (.+):\s+(\d+).  The search is unanchored and
\* leftmost, (.+) is greedy: group 1 runs from the start of the line to the
\* LAST colon that is followed by at least one whitespace and a digit.
MemColons(line) ==
    {c \in 2..Len(line) :
        /\ line[c] = ":"
        /\ \E d \in (c + 2)..Len(line) :
              /\ IsDigit(line[d])
              /\ \A j \in (c + 1)..(d - 1) : IsWs(line[j])}

MemCaptures(line) ==
    LET colons == MemColons(line)
    IN
    IF colons = {} THEN [matched |-> FALSE, g1 |-> <<>>, g2 |-> <<>>]
    ELSE LET c == SetMax(colons)
             d == SetMin({k \in (c + 1)..Len(line) : IsDigit(line[k])})
         IN  [matched |-> TRUE,
              g1 |-> SubSeq(line, 1, c - 1),
              g2 |-> SubSeq(line, d, RunEnd(line, d))]

Ok(v) == [ok |-> TRUE, val |-> v, err |-> "none"]

Err(site) == [ok |-> FALSE, val |-> 0, err |-> site]

IsOk(r) == r.ok

\* parse_memory_value's return from the first line whose group 1, trimmed, is key
KeyLineResult(line) ==
    LET n == ParseU64(MemCaptures(line).g2)
    IN  IF n.some THEN Ok(n.val) ELSE Err("parse_memory_value")

\* a parser that fails the caller when the key is absent
NotFoundIsError == Err("parse_memory_value")

\* lines 368-369: the warning, then Ok(0)
NotFoundResult == Ok(0)

RECURSIVE parse_memory_value(_, _)
parse_memory_value(mem_info, key) ==
    IF mem_info = <<>> THEN NotFoundResult
    ELSE LET caps == MemCaptures(Head(mem_info))
         IN  IF caps.matched /\ Trim(caps.g1) = key
             THEN KeyLineResult(Head(mem_info))
             ELSE parse_memory_value(Tail(mem_info), key)

\* the MemorySample literal of monitor_memory: the eight calls in order, each
\* followed by `?`, so the first Err is the result
FieldSet == {Fields[k] : k \in 1..Len(Fields)}

NoSample == [f \in {"timestamp"} \cup FieldSet |-> 0]

FieldIndex(f) == CHOOSE k \in 1..Len(Fields) : Fields[k] = f

\* lines 134-141: one call for each field, with that field's key
FieldResults(buf) ==
    << parse_memory_value(buf, KeyArg("total_pss")),
       parse_memory_value(buf, KeyArg("native_heap")),
       parse_memory_value(buf, KeyArg("dalvik_heap")),
       parse_memory_value(buf, KeyArg("code")),
       parse_memory_value(buf, KeyArg("stack")),
       parse_memory_value(buf, KeyArg("graphics")),
       parse_memory_value(buf, KeyArg("private_dirty")),
       parse_memory_value(buf, KeyArg("shared_dirty")) >>

\* the calls made: all eight, or those up to and including the first Err
CallsMade(res) ==
    LET bad == {k \in 1..Len(Fields) : ~IsOk(res[k])}
    IN  IF bad = {} THEN res ELSE SubSeq(res, 1, SetMin(bad))

SampleFrom(res, ts) ==
    IF \E k \in 1..Len(Fields) : ~IsOk(res[k])
    THEN [ok |-> FALSE, err |-> "parse_memory_value", sample |-> NoSample]
    ELSE [ok |-> TRUE, err |-> "none",
          sample |-> [f \in {"timestamp"} \cup FieldSet |->
                        IF f = "timestamp" THEN ts ELSE res[FieldIndex(f)].val]]

BuildSample(buf, ts) == LET res == FieldResults(buf) IN SampleFrom(res, ts)

\* ------------------------------------------------- reports for the parser
ReportLabels == {Label(Fields[k]) : k \in 1..NumReportLabels}

Separators == {<< ":" >>, << ":", " " >>, << ":", ":" >>, << ":", ":", " " >>}

Numbers == {<< "4", "2" >>, << BigDigits >>}

\* the lines a report is made of: [ws label] colon(s) [ws] digits, with one
\* of the tracked labels or with none, and lines with no number
LinePool ==
    {<< " ", l >> \o c \o d : l \in ReportLabels, c \in Separators, d \in Numbers}
    \cup {c \o << "7" >> : c \in Separators}
    \cup {<<>>, << "junk" >>}

RECURSIVE SeqsUpTo(_, _)
SeqsUpTo(S, n) ==
    IF n = 0 THEN {<<>>}
    ELSE LET shorter == SeqsUpTo(S, n - 1)
         IN  shorter \cup {Append(s, x) : s \in {t \in shorter : Len(t) = n - 1}, x \in S}

Reports == SeqsUpTo(LinePool, MaxLines)

ParseInit ==
    /\ report \in Reports
    /\ parsed = <<>>
    /\ sample_res = [ok |-> FALSE, err |-> "none", sample |-> NoSample]
    /\ parse_pc = "ready"

ParseIdle ==
    /\ report = <<>>
    /\ parsed = <<>>
    /\ sample_res = [ok |-> FALSE, err |-> "none", sample |-> NoSample]
    /\ parse_pc = "ready"

\* lines 132-142 applied to one captured report
ParseSample ==
    /\ parse_pc = "ready"
    /\ LET res == FieldResults(report)
       IN  /\ parsed' = CallsMade(res)
           /\ sample_res' = SampleFrom(res, 0)
    /\ parse_pc' = "built"
    /\ UNCHANGED << report, monVars, soVars, lcVars, mainVars >>

\* --------------------------------------------------------- monitor_memory
\* what `dumpsys meminfo` may print on a tick
MonReports ==
    { <<>>,
      << << "Native Heap", ":", " ", "7" >> >>,
      << << "TOTAL PSS", ":", ":", " ", "4", "2" >> >>,
      << << "Code", ":", ":", " ", BigDigits >> >> }

NoOutputs == [png |-> "none", json |-> "none", csv |-> "none"]

MonInit ==
    /\ duration \in 1..MaxDuration
    /\ sample_interval \in 1..MaxInterval
    /\ mon_pc = "while"
    /\ elapsed = 0
    /\ buffer = <<>>
    /\ samples = <<>>
    /\ outputs = NoOutputs
    /\ mon_result = "none"

MonIdle ==
    /\ duration = 1
    /\ sample_interval = 1
    /\ mon_pc = "while"
    /\ elapsed = 0
    /\ buffer = <<>>
    /\ samples = <<>>
    /\ outputs = NoOutputs
    /\ mon_result = "none"

\* a `?` inside monitor_memory returns the Err: the local Vec is dropped
MonReturnErr(site) ==
    /\ mon_pc' = "returned"
    /\ mon_result' = site
    /\ samples' = <<>>

\* a loop that tests the limit with <= (one tick too many)
LoopCondInclusive(e, d) == e <= d

\* line 129: while start.elapsed().as_secs() < duration
LoopCond(e, d) == e < d

MonWhile ==
    /\ mon_pc = "while"
    /\ mon_pc' = IF LoopCond(elapsed, duration) THEN "capture" ELSE "plot"
    /\ UNCHANGED << elapsed, duration, sample_interval, buffer, samples, outputs,
                    mon_result >>
    /\ UNCHANGED << parseVars, soVars, lcVars, mainVars >>

\* lines 130-131 and 336-343: the command runs and its stdout replaces the
\* buffer, or it cannot be run and `?` returns the Err
MonCapture ==
    /\ mon_pc = "capture"
    /\ \/ /\ \E r \in MonReports : buffer' = r
          /\ mon_pc' = "sample"
          /\ UNCHANGED << samples, mon_result >>
       \/ /\ MonReturnErr("Err(get_memory_info_into)")
          /\ buffer' = <<>>
    /\ UNCHANGED << elapsed, duration, sample_interval, outputs >>
    /\ UNCHANGED << parseVars, soVars, lcVars, mainVars >>

\* lines 132-143: the sample is built and pushed, or a parse error returns
MonSample ==
    /\ mon_pc = "sample"
    /\ LET r == BuildSample(buffer, elapsed)
       IN  IF r.ok
           THEN /\ samples' = Append(samples, r.sample)
                /\ mon_pc' = "sleep"
                /\ UNCHANGED mon_result
           ELSE MonReturnErr("Err(parse_memory_value)")
    /\ UNCHANGED << elapsed, duration, sample_interval, buffer, outputs >>
    /\ UNCHANGED << parseVars, soVars, lcVars, mainVars >>

\* line 144: the clock advances only here, by the interval
MonSleep ==
    /\ mon_pc = "sleep"
    /\ elapsed' = elapsed + sample_interval
    /\ mon_pc' = "while"
    /\ UNCHANGED << duration, sample_interval, buffer, samples, outputs, mon_result >>
    /\ UNCHANGED << parseVars, soVars, lcVars, mainVars >>

\* line 147: self.plot_memory_curve(&samples, output_image)?
MonPlot ==
    /\ mon_pc = "plot"
    /\ \/ /\ outputs' = [outputs EXCEPT !.png = "ok"]
          /\ mon_pc' = "json"
          /\ UNCHANGED << samples, mon_result >>
       \/ /\ outputs' = [outputs EXCEPT !.png = "failed"]
          /\ MonReturnErr("Err(plot_memory_curve)")
    /\ UNCHANGED << elapsed, duration, sample_interval, buffer >>
    /\ UNCHANGED << parseVars, soVars, lcVars, mainVars >>

\* lines 153-155: the JSON export
MonJson ==
    /\ mon_pc = "json"
    /\ \/ /\ outputs' = [outputs EXCEPT !.json = "ok"]
          /\ mon_pc' = "csv"
          /\ UNCHANGED << samples, mon_result >>
       \/ /\ outputs' = [outputs EXCEPT !.json = "failed"]
          /\ MonReturnErr("Err(json)")
    /\ UNCHANGED << elapsed, duration, sample_interval, buffer >>
    /\ UNCHANGED << parseVars, soVars, lcVars, mainVars >>

\* lines 157-181: the CSV export, then Ok(samples)
MonCsv ==
    /\ mon_pc = "csv"
    /\ \/ /\ outputs' = [outputs EXCEPT !.csv = "ok"]
          /\ mon_pc' = "returned"
          /\ mon_result' = "Ok"
          /\ UNCHANGED samples
       \/ /\ outputs' = [outputs EXCEPT !.csv = "failed"]
          /\ MonReturnErr("Err(csv)")
    /\ UNCHANGED << elapsed, duration, sample_interval, buffer >>
    /\ UNCHANGED << parseVars, soVars, lcVars, mainVars >>

MonNext ==
    \/ MonWhile
    \/ MonCapture
    \/ MonSample
    \/ MonSleep
    \/ MonPlot
    \/ MonJson
    \/ MonCsv

\* ------------------------------------------------------ analyze_so_memory
LINE_LIMIT == 1000

LongExtra == 4         \* lines a long report has beyond LINE_LIMIT

SoNames == {"liba.so", "libb.so", "libc.so"}

\* str::contains for the two section markers: the marker is one token
Contains(line, marker) == \E i \in 1..Len(line) : line[i] = marker

\* line.trim().is_empty()
IsBlank(line) == Trim(line) = <<>>

\* the first position at or after i that holds no whitespace (Len + 1 if none)
SkipWs(line, i) ==
    SetMin({k \in i..Len(line) : ~IsWs(line[k])} \cup {Len(line) + 1})

DigitAt(line, i) == i <= Len(line) /\ IsDigit(line[i])

NoSoCaps == [matched |-> FALSE, g1 |-> <<>>, g2 |-> <<>>, g3 |-> <<>>, g4 |-> <<>>]

\* SO_REGEX.captures(line) for ^\s*(\d+)\s+(\d+)\s+(\d+)\s+(.+\.so): three
\* runs of digits separated by whitespace, then whitespace, then the text up
\* to the last ".so" of the line (greedy .+)
SoCaptures(line) ==
    LET a1 == SkipWs(line, 1)
    IN  IF ~DigitAt(line, a1) THEN NoSoCaps
        ELSE
        LET e1 == RunEnd(line, a1)
            a2 == SkipWs(line, e1 + 1)
        IN  IF a2 = e1 + 1 \/ ~DigitAt(line, a2) THEN NoSoCaps
            ELSE
            LET e2 == RunEnd(line, a2)
                a3 == SkipWs(line, e2 + 1)
            IN  IF a3 = e2 + 1 \/ ~DigitAt(line, a3) THEN NoSoCaps
                ELSE
                LET e3 == RunEnd(line, a3)
                    q == SkipWs(line, e3 + 1)
                    so == {j \in q..Len(line) : line[j] \in SoNames}
                IN  IF q = e3 + 1 \/ so = {} THEN NoSoCaps
                    ELSE [matched |-> TRUE,
                          g1 |-> SubSeq(line, a1, e1),
                          g2 |-> SubSeq(line, a2, e2),
                          g3 |-> SubSeq(line, a3, e3),
                          g4 |-> SubSeq(line, q, SetMax(so))]

\* m.as_str().parse::<u64>().ok() ... .unwrap_or(0)
U64OrZero(run) == IF ParseU64(run).some THEN ParseU64(run).val ELSE 0

\* the SoMemoryInfo pushed for a line that SO_REGEX matches (lines 299-303)
SoRecord(line) ==
    LET caps == SoCaptures(line)
    IN  [name |-> caps.g4, pss |-> U64OrZero(caps.g1),
         private_dirty |-> U64OrZero(caps.g2), shared_dirty |-> U64OrZero(caps.g3)]

\* line 293: if i > 1000
OverLimit(i) == i > LINE_LIMIT

\* the results sort_unstable_by(|a, b| b.pss.cmp(&a.pss)) may leave: any
\* arrangement of the records with pss descending (ties in any order)
Perms(n) == {f \in [1..n -> 1..n] : \A a, b \in 1..n : f[a] = f[b] => a = b}

SortUnstableByPssDesc(libs) ==
    {[k \in 1..Len(libs) |-> libs[f[k]]] : f \in
        {g \in Perms(Len(libs)) :
            \A a, b \in 1..Len(libs) : a < b => libs[g[a]].pss >= libs[g[b]].pss}}

\* ---- the reports analyze_so_memory is run on
HeaderLine == << "Native Heap" >>

NextHeaderLine == << "Dalvik Heap" >>

JunkLine == << "junk" >>

RECURSIVE DigitsOf(_)
DigitsOf(n) ==
    IF n < 10 THEN << DigitTokens[n + 1] >>
    ELSE Append(DigitsOf(n \div 10), DigitTokens[(n % 10) + 1])

RowLine(pss, name) == DigitsOf(pss) \o << " ", "1", " ", "2", " ", name >>

SoLinePool ==
    { HeaderLine, NextHeaderLine, <<>>, << " " >>, JunkLine,
      RowLine(5, "liba.so"), RowLine(5, "libb.so"), RowLine(9, "libc.so") }

SoShortReports == SeqsUpTo(SoLinePool, MaxSoLines)

\* a report of LINE_LIMIT + LongExtra lines: junk before the header at index
\* h (0-based), then the section: a row right after the header and rows from
\* index LINE_LIMIT - 2 on (each row's pss is its own line index), junk
\* between.  tailHeader: the lines past LINE_LIMIT repeat the header instead.
\* term: the last line is blank.
LongReport(h, tailHeader, term) ==
    [k \in 1..(LINE_LIMIT + LongExtra) |->
        LET i == k - 1
        IN  IF i < h THEN JunkLine
            ELSE IF i = h THEN HeaderLine
            ELSE IF term /\ k = LINE_LIMIT + LongExtra THEN <<>>
            ELSE IF tailHeader /\ i > LINE_LIMIT THEN HeaderLine
            ELSE IF i = h + 1 \/ i >= LINE_LIMIT - 2 THEN RowLine(i, "liba.so")
            ELSE JunkLine]

LongHeaderAt == {0, 3, LINE_LIMIT + 1}

SoLongReports ==
    {LongReport(h, t, b) : h \in LongHeaderAt, t \in BOOLEAN, b \in BOOLEAN}

SoInit ==
    /\ so_pc = "call"
    /\ so_lines = <<>>
    /\ so_i = 0
    /\ in_so_section = FALSE
    /\ so_libs = <<>>
    /\ so_result = "none"

\* lines 279-283: the report is captured and split into lines, or `?` returns
SoCapture ==
    /\ so_pc = "call"
    /\ \/ /\ so_lines' \in SoShortReports \cup SoLongReports
          /\ so_pc' = "scan"
          /\ UNCHANGED so_result
       \/ /\ so_pc' = "returned"
          /\ so_result' = "Err(get_memory_info_into)"
          /\ UNCHANGED so_lines
    /\ UNCHANGED << so_i, in_so_section, so_libs >>
    /\ UNCHANGED << parseVars, monVars, lcVars, mainVars >>

\* lines 285-308: one iteration of the loop, on line so_i (0-based)
SoLine ==
    /\ so_pc = "scan"
    /\ so_i < Len(so_lines)
    /\ LET line == so_lines[so_i + 1]
       IN  IF Contains(line, "Native Heap")
           THEN /\ in_so_section' = TRUE
                /\ so_i' = so_i + 1
                /\ UNCHANGED << so_pc, so_libs >>
           ELSE IF in_so_section /\ (Contains(line, "Dalvik Heap") \/ IsBlank(line))
           THEN /\ so_pc' = "sort"
                /\ UNCHANGED << so_i, in_so_section, so_libs >>
           ELSE IF OverLimit(so_i)
           THEN /\ so_pc' = "sort"
                /\ UNCHANGED << so_i, in_so_section, so_libs >>
           ELSE /\ so_libs' = IF in_so_section /\ ~IsBlank(line) /\ SoCaptures(line).matched
                               THEN Append(so_libs, SoRecord(line))
                               ELSE so_libs
                /\ so_i' = so_i + 1
                /\ UNCHANGED << so_pc, in_so_section >>
    /\ UNCHANGED << so_lines, so_result >>
    /\ UNCHANGED << parseVars, monVars, lcVars, mainVars >>

\* the iterator is exhausted
SoLoopEnd ==
    /\ so_pc = "scan"
    /\ so_i = Len(so_lines)
    /\ so_pc' = "sort"
    /\ UNCHANGED << so_lines, so_i, in_so_section, so_libs, so_result >>
    /\ UNCHANGED << parseVars, monVars, lcVars, mainVars >>

\* lines 310-314
SoSort ==
    /\ so_pc = "sort"
    /\ so_libs' \in SortUnstableByPssDesc(so_libs)
    /\ so_pc' = "write"
    /\ UNCHANGED << so_lines, so_i, in_so_section, so_result >>
    /\ UNCHANGED << parseVars, monVars, lcVars, mainVars >>

\* lines 316-333: the two exports, then Ok(so_libs)
SoWrite ==
    /\ so_pc = "write"
    /\ so_pc' = "returned"
    /\ \/ /\ so_result' = "Ok"
          /\ UNCHANGED so_libs
       \/ /\ so_result' \in {"Err(json)", "Err(csv)"}
          /\ so_libs' = <<>>
    /\ UNCHANGED << so_lines, so_i, in_so_section >>
    /\ UNCHANGED << parseVars, monVars, lcVars, mainVars >>

SoNext ==
    \/ SoCapture
    \/ SoLine
    \/ SoLoopEnd
    \/ SoSort
    \/ SoWrite

\* ------------------------------------------------------------ start_logcat
\* child: "none" (not spawned), "running", "exited" (terminated, not yet
\* waited for) or "reaped".  stream: the lines read so far, each "hit" (the
\* pattern matches) or "miss".  file_state: "none" (not created) or the
\* number of lines written to the output file.
LcInit ==
    /\ lc_pc = "regex"
    /\ child = "none"
    /\ output_file \in BOOLEAN
    /\ stream = <<>>
    /\ file_state = "none"
    /\ lc_result = "none"

LcIdle ==
    /\ lc_pc = "regex"
    /\ child = "none"
    /\ output_file = FALSE
    /\ stream = <<>>
    /\ file_state = "none"
    /\ lc_result = "none"

\* a `?` returns the Err; dropping a std::process::Child neither kills nor
\* waits for the process, so `child` stays as it is
LcReturnErr(site) ==
    /\ lc_pc' = "returned"
    /\ lc_result' = site
    /\ UNCHANGED child

\* line 89: Regex::new(&self.config.keyword_regex)?
LcRegex ==
    /\ lc_pc = "regex"
    /\ \/ /\ lc_pc' = "spawn"
          /\ UNCHANGED << child, lc_result >>
       \/ LcReturnErr("Err(regex)")
    /\ UNCHANGED << output_file, stream, file_state >>
    /\ UNCHANGED << parseVars, monVars, soVars, mainVars >>

\* lines 90-96: spawn with a piped stdout, take the pipe
LcSpawn ==
    /\ lc_pc = "spawn"
    /\ \/ /\ child' = "running"
          /\ lc_pc' = IF output_file THEN "create" ELSE "read"
          /\ UNCHANGED lc_result
       \/ LcReturnErr("Err(spawn)")
    /\ UNCHANGED << output_file, stream, file_state >>
    /\ UNCHANGED << parseVars, monVars, soVars, mainVars >>

\* line 99: File::create(file_path)?
LcCreate ==
    /\ lc_pc = "create"
    /\ \/ /\ file_state' = 0
          /\ lc_pc' = "read"
          /\ UNCHANGED << child, lc_result >>
       \/ /\ LcReturnErr("Err(File::create)")
          /\ UNCHANGED file_state
    /\ UNCHANGED << output_file, stream >>
    /\ UNCHANGED << parseVars, monVars, soVars, mainVars >>

\* lines 101-108 and 111-117: one read_until.  It yields a line, or 0 bytes
\* (the child has closed its stdout: it has exited), or an error
LcRead ==
    /\ lc_pc = "read"
    /\ \/ /\ Len(stream) < MaxStream
          /\ \E l \in {"hit", "miss"} :
                /\ stream' = Append(stream, l)
                /\ lc_pc' = IF l = "hit" /\ output_file THEN "write" ELSE "read"
          /\ UNCHANGED << child, lc_result >>
       \/ /\ child' = "exited"
          /\ lc_pc' = IF output_file THEN "flush" ELSE "kill"
          /\ UNCHANGED << stream, lc_result >>
       \/ /\ LcReturnErr("Err(read_until)")
          /\ UNCHANGED stream
    /\ UNCHANGED << output_file, file_state >>
    /\ UNCHANGED << parseVars, monVars, soVars, mainVars >>

\* line 105: file.write_all(&buffer)?
LcWrite ==
    /\ lc_pc = "write"
    /\ \/ /\ file_state' = file_state + 1
          /\ lc_pc' = "read"
          /\ UNCHANGED << child, lc_result >>
       \/ /\ LcReturnErr("Err(write_all)")
          /\ UNCHANGED file_state
    /\ UNCHANGED << output_file, stream >>
    /\ UNCHANGED << parseVars, monVars, soVars, mainVars >>

\* line 109: file.flush()?
LcFlush ==
    /\ lc_pc = "flush"
    /\ \/ /\ lc_pc' = "kill"
          /\ UNCHANGED << child, lc_result >>
       \/ LcReturnErr("Err(flush)")
    /\ UNCHANGED << output_file, stream, file_state >>
    /\ UNCHANGED << parseVars, monVars, soVars, mainVars >>

\* line 119: output.kill()? (Ok as well for a child that has exited)
LcKill ==
    /\ lc_pc = "kill"
    /\ child' = "exited"
    /\ lc_pc' = "wait"
    /\ UNCHANGED << output_file, stream, file_state, lc_result >>
    /\ UNCHANGED << parseVars, monVars, soVars, mainVars >>

\* lines 120-121: output.wait()?; Ok(())
LcWait ==
    /\ lc_pc = "wait"
    /\ child' = "reaped"
    /\ lc_pc' = "returned"
    /\ lc_result' = "Ok"
    /\ UNCHANGED << output_file, stream, file_state >>
    /\ UNCHANGED << parseVars, monVars, soVars, mainVars >>

LcNext ==
    \/ LcRegex
    \/ LcSpawn
    \/ LcCreate
    \/ LcRead
    \/ LcWrite
    \/ LcFlush
    \/ LcKill
    \/ LcWait

\* -------------------------------------------------------------------- main
\* args: what the command line holds.  ran: the run modes main has called, in
\* order.  A mode is one step here: its call and the Result it returns.
ArgSets ==
    [threads : BOOLEAN, memory : {"absent", "valid", "invalid"},
     so_memory : BOOLEAN, config : BOOLEAN]

MainInit ==
    /\ main_pc = "adb_check"
    /\ args \in ArgSets
    /\ executed = FALSE
    /\ ran = <<>>
    /\ main_result = "none"

MainIdle ==
    /\ main_pc = "adb_check"
    /\ args = [threads |-> FALSE, memory |-> "absent", so_memory |-> FALSE,
               config |-> FALSE]
    /\ executed = FALSE
    /\ ran = <<>>
    /\ main_result = "none"

MainReturnErr(site) ==
    /\ main_pc' = "returned"
    /\ main_result' = site

\* lines 374-377
MainAdbCheck ==
    /\ main_pc = "adb_check"
    /\ \/ /\ main_pc' = "config"
          /\ UNCHANGED main_result
       \/ MainReturnErr("Err(adb)")
    /\ UNCHANGED << args, executed, ran >>
    /\ UNCHANGED << parseVars, monVars, soVars, lcVars >>

\* lines 390-410: the config file is read when one is named; executed = false
MainConfig ==
    /\ main_pc = "config"
    /\ \/ /\ main_pc' = "threads"
          /\ UNCHANGED main_result
       \/ /\ args.config
          /\ MainReturnErr("Err(config)")
    /\ UNCHANGED << args, executed, ran >>
    /\ UNCHANGED << parseVars, monVars, soVars, lcVars >>

\* one `if <selected> { mode()?; executed = true; }` of lines 412-439
MainMode(at, selected, mode, next) ==
    /\ main_pc = at
    /\ IF selected
       THEN /\ ran' = Append(ran, mode)
            /\ \/ /\ executed' = TRUE
                  /\ main_pc' = next
                  /\ UNCHANGED main_result
               \/ /\ MainReturnErr("Err(" \o mode \o ")")
                  /\ UNCHANGED executed
       ELSE /\ main_pc' = next
            /\ UNCHANGED << executed, ran, main_result >>
    /\ UNCHANGED args
    /\ UNCHANGED << parseVars, monVars, soVars, lcVars >>

\* lines 412-420
MainThreads == MainMode("threads", args.threads, "analyze_threads", "memory")

\* lines 422-429 (an unparsable duration falls back to 60 and still runs)
MainMemory == MainMode("memory", args.memory # "absent", "monitor_memory", "so_memory")

\* lines 431-439
MainSoMemory == MainMode("so_memory", args.so_memory, "analyze_so_memory", "logcat")

\* a dispatch that streams logs whatever ran before
LogcatAlways(e) == TRUE

\* line 441: if !executed
LogcatGuard(e) == ~e

\* lines 441-445
MainLogcat ==
    /\ main_pc = "logcat"
    /\ main_pc' = "returned"
    /\ IF LogcatGuard(executed)
       THEN /\ ran' = Append(ran, "start_logcat")
            /\ main_result' \in {"Ok", "Err(start_logcat)"}
       ELSE /\ main_result' = "Ok"
            /\ UNCHANGED ran
    /\ UNCHANGED << args, executed >>
    /\ UNCHANGED << parseVars, monVars, soVars, lcVars >>

MainNext ==
    \/ MainAdbCheck
    \/ MainConfig
    \/ MainThreads
    \/ MainMemory
    \/ MainSoMemory
    \/ MainLogcat

\* ---------------------------------------------------------- specifications
\* parse_memory_value and the MemorySample literal, on every bounded report
InitParse == ParseInit /\ MonIdle /\ SoInit /\ LcIdle /\ MainIdle

SpecParse == InitParse /\ [][ParseSample]_vars

\* monitor_memory
InitMonitor == ParseIdle /\ MonInit /\ SoInit /\ LcIdle /\ MainIdle

SpecMonitor == InitMonitor /\ [][MonNext]_vars

\* analyze_so_memory
InitSo == ParseIdle /\ MonIdle /\ SoInit /\ LcIdle /\ MainIdle

SpecSo == InitSo /\ [][SoNext]_vars

\* start_logcat
InitLogcat == ParseIdle /\ MonIdle /\ SoInit /\ LcInit /\ MainIdle

SpecLogcat == InitLogcat /\ [][LcNext]_vars

\* main
InitMain == ParseIdle /\ MonIdle /\ SoInit /\ LcIdle /\ MainInit

SpecMain == InitMain /\ [][MainNext]_vars

\* ------------------------------------------------------------------ claims
CeilDiv(a, b) == (a + b - 1) \div b

\* the while loop of monitor_memory has ended by its own test
AfterLoop ==
    \/ mon_pc \in {"plot", "json", "csv"}
    \/ mon_pc = "returned" /\ mon_result = "Ok"

Timestamps == [k \in 1..Len(samples) |-> samples[k].timestamp]

\* C1: with the clock advancing only in the inter-sample sleep, the samples
\* are taken at elapsed 0, I, 2I, ... strictly below the duration D, in that
\* order; when the loop has ended there are ceil(D/I) of them (3, at 0, 2 and
\* 4, for D = 5 and I = 2; one when I >= D) and the clock has reached D.
C1_SampleTimes ==
    /\ \A k \in 1..Len(samples) :
          /\ samples[k].timestamp = (k - 1) * sample_interval
          /\ samples[k].timestamp < duration
    /\ AfterLoop =>
          /\ Len(samples) = CeilDiv(duration, sample_interval)
          /\ elapsed >= duration
          /\ (duration = 5 /\ sample_interval = 2) => Timestamps = << 0, 2, 4 >>
          /\ sample_interval >= duration => Timestamps = << 0 >>

C1_Witness ==
    /\ mon_pc = "returned"
    /\ mon_result = "Ok"
    /\ duration = 5
    /\ sample_interval = 2
    /\ Len(samples) = 3

\* C2: a capture step that fails does not end monitor_memory: every tick that
\* starts a capture gets to build its sample, and every sample step appends
\* one sample after the samples of the earlier ticks and goes on to the sleep.
C2_CaptureFailureNonFatal ==
    [][ /\ mon_pc = "capture" => mon_pc' = "sample"
        /\ mon_pc = "sample" =>
              /\ mon_pc' = "sleep"
              /\ Len(samples') = Len(samples) + 1
              /\ SubSeq(samples', 1, Len(samples)) = samples ]_vars

\* a line of the form <label>:\s*<digits> whose label, trimmed, is key
FieldLine(line, key) ==
    \E c \in 1..Len(line) :
        /\ line[c] = ":"
        /\ Trim(SubSeq(line, 1, c - 1)) = key
        /\ \E d \in (c + 1)..Len(line) :
              /\ IsDigit(line[d])
              /\ \A j \in (c + 1)..(d - 1) : IsWs(line[j])

\* the digits of such a line
FieldDigits(line, key) ==
    LET c == CHOOSE x \in 1..Len(line) :
                 line[x] = ":" /\ Trim(SubSeq(line, 1, x - 1)) = key
        d == SetMin({k \in (c + 1)..Len(line) : IsDigit(line[k])})
    IN  SubSeq(line, d, RunEnd(line, d))

FieldLines(rep, key) == {i \in 1..Len(rep) : FieldLine(rep[i], key)}

NoBigNumber(rep) ==
    \A i \in 1..Len(rep) : \A j \in 1..Len(rep[i]) : rep[i][j] # BigDigits

\* C3: for each tracked field, when the report (all of whose numbers fit a
\* u64) has a line `<label>:` + optional whitespace + digits with that field's
\* label, the sample holds the integer of the first such line in that field.
C3_FieldHoldsFirstMatch ==
    (parse_pc = "built" /\ NoBigNumber(report)) =>
        \A k \in 1..Len(Fields) :
            LET key == << Label(Fields[k]) >>
                hits == FieldLines(report, key)
            IN  hits # {} =>
                  /\ sample_res.ok
                  /\ sample_res.sample[Fields[k]] =
                        DecValue(FieldDigits(report[SetMin(hits)], key))

\* the key handed to parse_memory_value for field k has no matching line
Missing(k) == FieldLines(report, KeyArg(Fields[k])) = {}

\* C4: for every report and every tracked key with no matching line, the
\* parse_memory_value call returns Ok(0), never an error; a sample that is
\* built has 0 in every such field, and a report with none of the eight keys
\* (the empty report too) yields the all-zero sample.
C4_MissingKeyIsZero ==
    parse_pc = "built" =>
        /\ \A k \in 1..Len(parsed) : Missing(k) => parsed[k] = Ok(0)
        /\ \A k \in 1..Len(Fields) :
              (Missing(k) /\ sample_res.ok) => sample_res.sample[Fields[k]] = 0
        /\ (\A k \in 1..Len(Fields) : Missing(k)) =>
              /\ sample_res.ok
              /\ Len(parsed) = Len(Fields)

C4_Witness ==
    /\ parse_pc = "built"
    /\ report # <<>>
    /\ sample_res.ok
    /\ \E k \in 1..Len(Fields) : Missing(k) /\ sample_res.sample[Fields[k]] = 0
    /\ \E k \in 1..Len(Fields) : ~Missing(k) /\ sample_res.sample[Fields[k]] = 42

\* ---- the native-library section as the specification describes it
\* the header: the first line with the section marker (0 if none)
HeaderIdx(lines) ==
    SetMin({i \in 1..Len(lines) : Contains(lines[i], "Native Heap")} \cup {Len(lines) + 1})

HasHeader(lines) == HeaderIdx(lines) <= Len(lines)

\* the terminator: the first blank line or next-section header after the
\* header (Len + 1 if none)
TermIdx(lines) ==
    SetMin({i \in (HeaderIdx(lines) + 1)..Len(lines) :
               IsBlank(lines[i]) \/ Contains(lines[i], "Dalvik Heap")}
           \cup {Len(lines) + 1})

\* the lines of the section that match the row pattern
SectionRows(lines) ==
    {i \in (HeaderIdx(lines) + 1)..(TermIdx(lines) - 1) : SoCaptures(lines[i]).matched}

Count(libs, rec) == Cardinality({k \in 1..Len(libs) : libs[k] = rec})

SoReturnedOk == so_pc = "returned" /\ so_result = "Ok"

\* the first section row a record can come from
FirstRowOf(rec) ==
    SetMin({i \in SectionRows(so_lines) : SoRecord(so_lines[i]) = rec} \cup {Len(so_lines) + 1})

\* C5: the list analyze_so_memory returns is ordered by pss descending, and
\* records of equal pss keep the order of their lines in the report.
C5_SortedStable ==
    SoReturnedOk =>
        \A a, b \in 1..Len(so_libs) :
            a < b =>
              /\ so_libs[a].pss >= so_libs[b].pss
              /\ so_libs[a].pss = so_libs[b].pss =>
                    FirstRowOf(so_libs[a]) <= FirstRowOf(so_libs[b])

\* the section starts within the bound and runs past it with no terminator
RunsPastBound(lines) ==
    /\ Len(lines) > LINE_LIMIT
    /\ HeaderIdx(lines) <= LINE_LIMIT
    /\ TermIdx(lines) = Len(lines) + 1

\* C6: for a section that runs past the line-scan bound with no terminator,
\* the scan has ended once LINE_LIMIT lines are scanned: when the loop is
\* over at most LINE_LIMIT lines were gone through, every record comes from
\* one of the first LINE_LIMIT lines, and every row of the section among
\* those lines has its record.
C6_ScanBounded ==
    (so_pc = "sort" /\ RunsPastBound(so_lines)) =>
        /\ so_i <= LINE_LIMIT
        /\ \A k \in 1..Len(so_libs) :
              \E i \in SectionRows(so_lines) :
                  i <= LINE_LIMIT /\ SoRecord(so_lines[i]) = so_libs[k]
        /\ \A i \in SectionRows(so_lines) :
              i <= LINE_LIMIT => Count(so_libs, SoRecord(so_lines[i])) >= 1

\* C7: whichever way start_logcat returns after it has spawned the child,
\* the child has been killed and reaped.
C7_ChildReaped ==
    (lc_pc = "returned" /\ child # "none") => child = "reaped"

NoneSelected == ~args.threads /\ args.memory = "absent" /\ ~args.so_memory

InRan(m) == \E i \in 1..Len(ran) : ran[i] = m

\* main has gone through the dispatch of lines 412-443
Dispatched == main_pc = "returned" /\ main_result \in {"Ok", "Err(start_logcat)"}

\* the analysis modes selected, in the order main calls them
SelectedModes ==
    (IF args.threads THEN << "analyze_threads" >> ELSE <<>>)
    \o (IF args.memory # "absent" THEN << "monitor_memory" >> ELSE <<>>)
    \o (IF args.so_memory THEN << "analyze_so_memory" >> ELSE <<>>)

C9_SectionRowsReturned ==
    (so_pc = "write" /\ TermIdx(so_lines) - HeaderIdx(so_lines) <= LINE_LIMIT) =>
        /\ \A i \in SectionRows(so_lines) :
              Count(so_libs, SoRecord(so_lines[i])) =
                Cardinality({j \in SectionRows(so_lines) :
                                SoRecord(so_lines[j]) = SoRecord(so_lines[i])})
        /\ \A k \in 1..Len(so_libs) :
              \E i \in SectionRows(so_lines) : SoRecord(so_lines[i]) = so_libs[k]
        /\ ~HasHeader(so_lines) => so_libs = <<>>

\* C10: in the memory-monitoring run a failure to produce one output file is
\* fatal for that output only: when the call has returned after a failed
\* chart the JSON and CSV exports were still attempted, and after a failed
\* JSON export the CSV export was.
C10_OutputsIndependent ==
    mon_pc = "returned" =>
        /\ outputs.png = "failed" => (outputs.json # "none" /\ outputs.csv # "none")
        /\ outputs.json = "failed" => outputs.csv # "none"

=============================================================================
